---- MODULE Spec2Model ----
(***************************************************************************)
(* A model of the doldisasm analyzer: the symbolic value lattice           *)
(* (cli/src/value.rs), the abstract machine state and transfer function    *)
(* (cli/src/disasm.rs), the worklist engine (dataflow/src/lib.rs), the raw *)
(* PowerPC decoder (ppc32/src) and the function-window decoder.            *)
(*                                                                         *)
(* A 32-bit quantity whose upper bit matters (VInt.val, an instruction     *)
(* word) is the pair <<hi, lo>> of its two 16-bit halves, so that u32      *)
(* wrap-around, the i32 sign bit and unsigned ordering are exact.          *)
(***************************************************************************)
EXTENDS Integers, Sequences, FiniteSets, TLC

VARIABLES
    \* ---- value lattice: operands and the last operation applied
    va, vb, vc, vres, vfeed,
    \* ---- function-window decoder
    buffer, input, offset, range, reached_end, conditional_ranges, yielded, last_ret,
    \* ---- transfer function applied to a free instruction sequence
    tstate, tsteps, tstatus,
    \* ---- the address of the analysed function (Analysis.fn_address)
    fn_address,
    \* ---- worklist engine (dataflow::run), run twice on one analysis
    insts, queue, entry_states, state, cursor, pc, panic, run_no, first_result,
    \* ---- signature reconstruction (disasm_c) after the run
    parameter_gprs, final_state, has_return

valueVars == <<va, vb, vc, vres, vfeed>>
decoderVars == <<buffer, input, offset, range, reached_end, conditional_ranges, yielded, last_ret>>
transferVars == <<tstate, tsteps, tstatus>>
signatureVars == <<parameter_gprs, final_state, has_return>>
engineVars == <<insts, queue, entry_states, state, cursor, pc, panic, run_no, first_result,
                signatureVars>>
vars == <<valueVars, decoderVars, transferVars, fn_address, engineVars>>

(***************************************************************************)
(* 32-bit words as two 16-bit halves                                       *)
(***************************************************************************)
W16 == 2^16
W15 == 2^15
W8 == 2^8
W7 == 2^7

Small(n) == <<0, n>>

\* u32::wrapping_add
WrappingAdd(x, y) ==
    LET lo == x[2] + y[2]
        hi == x[1] + y[1] + (lo \div W16)
    IN  <<hi % W16, lo % W16>>

\* unsigned comparison of two u32: -1, 0, 1
CmpU32(x, y) ==
    IF x[1] # y[1] THEN (IF x[1] < y[1] THEN -1 ELSE 1)
    ELSE IF x[2] # y[2] THEN (IF x[2] < y[2] THEN -1 ELSE 1)
    ELSE 0

RECURSIVE Or16(_, _)
Or16(a, b) ==
    IF a = 0 THEN b
    ELSE IF b = 0 THEN a
    ELSE (IF a % 2 = 1 \/ b % 2 = 1 THEN 1 ELSE 0) + 2 * Or16(a \div 2, b \div 2)

\* left.val | right.val
OrU32(x, y) == <<Or16(x[1], y[1]), Or16(x[2], y[2])>>

\* the sign bit of the low half: (val as i16) < 0
IsNegI16(x) == x[2] >= W15

\* (val as i32) < 0, (val as i32) > 0, val == 0
IsNegI32(x) == x[1] >= W15
IsZeroU32(x) == x = <<0, 0>>
IsPosI32(x) == ~IsNegI32(x) /\ ~IsZeroU32(x)

(***************************************************************************)
(* IntType and VInt                                                        *)
(***************************************************************************)
IntTypes == {"I8", "I16", "I32", "U8", "U16", "U32", "F32", "Ptr"}

\* derive(PartialOrd, Ord) on IntType: declaration order
IntTypeRank(ty) ==
    CASE ty = "I8" -> 0 [] ty = "I16" -> 1 [] ty = "I32" -> 2 [] ty = "U8" -> 3
      [] ty = "U16" -> 4 [] ty = "U32" -> 5 [] ty = "F32" -> 6 [] ty = "Ptr" -> 7

is_float(ty) == ty = "F32"

\* VInt::new: truncate the value to the type's width
VIntNew(val, ty) ==
    LET b == val[2] % W8
        v == CASE ty = "I8" -> IF b >= W7 THEN <<W16 - 1, (W16 - W8) + b>> ELSE <<0, b>>
               [] ty = "I16" -> IF val[2] >= W15 THEN <<W16 - 1, val[2]>> ELSE <<0, val[2]>>
               [] ty = "U8" -> <<0, b>>
               [] ty = "U16" -> <<0, val[2]>>
               [] OTHER -> val
    IN  [val |-> v, ty |-> ty]

\* f32 bit patterns of the small naturals 0..3 (exact in IEEE-754 single)
F32Bits(n) ==
    CASE n = 0 -> <<0, 0>>
      [] n = 1 -> <<16256, 0>>
      [] n = 2 -> <<16384, 0>>
      [] n = 3 -> <<16448, 0>>
      [] OTHER -> <<16512, 0>>
F32Nat(bits) ==
    CASE bits = <<0, 0>> -> 0
      [] bits = <<16256, 0>> -> 1
      [] bits = <<16384, 0>> -> 2
      [] bits = <<16448, 0>> -> 3
      [] OTHER -> 4
\* f32::to_bits(f32::from_bits(a) + f32::from_bits(b)), on the floats 0.0 .. 4.0
F32Add(a, b) == F32Bits(F32Nat(a) + F32Nat(b))

\* Option<VInt>::None
NoneV == [val |-> <<0, 0>>, ty |-> "None"]

\* VInt::add: Some(VInt) or None
VIntAdd(self, other) ==
    IF is_float(self.ty) /\ is_float(other.ty)
    THEN VIntNew(F32Add(self.val, other.val), self.ty)
    ELSE IF is_float(self.ty) \/ is_float(other.ty)
    THEN NoneV
    ELSE VIntNew(WrappingAdd(self.val, other.val), self.ty)

(***************************************************************************)
(* Value / ValueInner: a tagged tuple, the tag first                       *)
(***************************************************************************)
UNINIT == <<"Uninitialized">>
CALLER_STACK == <<"CallerStack">>
Param(n) == <<"Param", n>>
IntV(val, ty) == <<"Int", val, ty>>
AddV(l, r) == <<"Add", l, r>>
BitOrV(l, r) == <<"BitOr", l, r>>
OneIfNegativeV(v) == <<"OneIfNegative", v>>
OneIfPositiveV(v) == <<"OneIfPositive", v>>
OneIfZeroV(v) == <<"OneIfZero", v>>
CallResult(addr) == <<"CallResult", addr>>
RETURN_ADDRESS == <<"ReturnAddress">>
ANY == <<"Any">>
\* the outcome of a call that panics (assert!, unwrap, todo!, unreachable!)
PanicV == <<"Panic">>

IsInt(v) == v[1] = "Int"
IsAdd(v) == v[1] = "Add"
VIntOf(v) == [val |-> v[2], ty |-> v[3]]
OfVInt(i) == IntV(i.val, i.ty)

\* derive(PartialOrd, Ord) on ValueInner: variant order, then the fields
TagRank(t) ==
    CASE t = "Uninitialized" -> 0 [] t = "CallerStack" -> 1 [] t = "Param" -> 2
      [] t = "Int" -> 3 [] t = "Add" -> 4 [] t = "BitOr" -> 5
      [] t = "OneIfNegative" -> 6 [] t = "OneIfPositive" -> 7 [] t = "OneIfZero" -> 8
      [] t = "CallResult" -> 9 [] t = "ReturnAddress" -> 10 [] t = "Any" -> 11

CmpInt(x, y) == IF x < y THEN -1 ELSE IF x > y THEN 1 ELSE 0

RECURSIVE ValueCmp(_, _)
ValueCmp(a, b) ==
    IF TagRank(a[1]) # TagRank(b[1]) THEN CmpInt(TagRank(a[1]), TagRank(b[1]))
    ELSE CASE a[1] \in {"Param", "CallResult"} -> CmpInt(a[2], b[2])
           [] a[1] = "Int" ->
                IF CmpU32(a[2], b[2]) # 0 THEN CmpU32(a[2], b[2])
                ELSE CmpInt(IntTypeRank(a[3]), IntTypeRank(b[3]))
           [] a[1] \in {"Add", "BitOr"} ->
                IF ValueCmp(a[2], b[2]) # 0 THEN ValueCmp(a[2], b[2])
                ELSE ValueCmp(a[3], b[3])
           [] a[1] \in {"OneIfNegative", "OneIfPositive", "OneIfZero"} -> ValueCmp(a[2], b[2])
           [] OTHER -> 0

\* Value::u32, Value::i16, Value::int
ValueInt(imm, ty) == IntV(imm, ty)
ValueU32(imm) == ValueInt(imm, "U32")
\* the 16 bits of an immediate taken as an unsigned 32-bit constant
ValueImmZeroExtended(imm) == ValueU32(<<0, imm>>)
\* imm is the i16 as its 16 bits; `imm as u32` sign-extends
ValueI16(imm) == ValueInt(IF imm >= W15 THEN <<W16 - 1, imm>> ELSE <<0, imm>>, "I16")

\* a join that only looks at self for the Uninitialized case
JoinLeft(self, other) ==
    IF self = other THEN self
    ELSE IF self = UNINIT THEN UNINIT
    ELSE ANY

\* Value::join
Join(self, other) ==
    IF self = other THEN self
    ELSE IF self = UNINIT \/ other = UNINIT THEN UNINIT
    ELSE ANY

is_initialized(v) == v[1] # "Uninitialized"

\* a canon_iter that unpacks two levels of Add nodes
FlattenTwoLevels(val) ==
    IF IsAdd(val)
    THEN (IF IsAdd(val[2]) THEN <<val[2][2], val[2][3]>> ELSE <<val[2]>>)
            \o (IF IsAdd(val[3]) THEN <<val[3][2], val[3][3]>> ELSE <<val[3]>>)
    ELSE <<val>>

\* canon_iter: the two children of a top-level Add node, else the value
Flatten(val) == IF IsAdd(val) THEN <<val[2], val[3]>> ELSE <<val>>

\* the loop over canon_iter: sum is NoneV or a VInt, terms an ArrayVec of capacity 4
RECURSIVE AddFold(_, _, _, _)
AddFold(canon, i, sum, terms) ==
    IF i > Len(canon) THEN [sum |-> sum, terms |-> terms]
    ELSE LET value == canon[i] IN
         IF IsInt(value)
         THEN IF sum # NoneV
              THEN LET new_sum == VIntAdd(sum, VIntOf(value)) IN
                   IF new_sum # NoneV
                   THEN AddFold(canon, i + 1, new_sum, terms)
                   ELSE AddFold(canon, i + 1, sum, Append(terms, value))
              ELSE AddFold(canon, i + 1, VIntOf(value), terms)
         ELSE AddFold(canon, i + 1, sum, Append(terms, value))

TermCapacity == 4

\* sum.filter(|v| v.val != 0)
NonZeroSum(sum) == IF sum.ty # "None" /\ sum.val # <<0, 0>> THEN sum ELSE NoneV

\* the match on *terms that builds the canonical tree
AddShape(sum, t, nz) ==
    CASE Len(t) = 0 -> IF sum = NoneV THEN PanicV ELSE OfVInt(sum)
      [] Len(t) = 1 ->
           IF sum = NoneV THEN PanicV
           ELSE IF sum.val = <<0, 0>> THEN t[1]
           ELSE AddV(t[1], OfVInt(sum))
      [] Len(t) = 2 ->
           IF nz # NoneV THEN AddV(AddV(t[1], t[2]), OfVInt(nz))
           ELSE AddV(t[1], t[2])
      [] Len(t) = 3 ->
           IF nz # NoneV THEN AddV(AddV(t[1], t[2]), AddV(t[3], OfVInt(nz)))
           ELSE AddV(AddV(t[1], t[2]), t[3])
      [] Len(t) = TermCapacity ->
           IF nz # NoneV
           THEN AddV(AddV(t[1], t[2]), AddV(t[3], AddV(t[4], OfVInt(nz))))
           ELSE AddV(AddV(t[1], t[2]), AddV(t[3], t[4]))
      [] OTHER -> PanicV

AddOfFold(f) == AddShape(f.sum, f.terms, NonZeroSum(f.sum))

\* Value::add
Add(self, other) == AddOfFold(AddFold(Flatten(self) \o Flatten(other), 1, NoneV, <<>>))

\* Value::call_result, Value::parameter
call_result(addr) == CallResult(addr)
parameter(p) == Param(p)

\* Value::bit_or
bit_or(self, other) ==
    IF IsInt(self) /\ IsInt(other)
    THEN IF self[3] # other[3] THEN PanicV
         ELSE ValueInt(OrU32(self[2], other[2]), self[3])
    ELSE IF ValueCmp(self, other) > 0 THEN BitOrV(other, self)
    ELSE BitOrV(self, other)

\* Value::one_if_negative / one_if_positive / one_if_zero
one_if_negative(self) ==
    IF IsInt(self) THEN ValueU32(IF IsNegI32(self[2]) THEN Small(1) ELSE Small(0))
    ELSE OneIfNegativeV(self)
one_if_positive(self) ==
    IF IsInt(self) THEN ValueU32(IF IsPosI32(self[2]) THEN Small(1) ELSE Small(0))
    ELSE OneIfPositiveV(self)
one_if_zero(self) ==
    IF IsInt(self) THEN ValueU32(IF IsZeroU32(self[2]) THEN Small(1) ELSE Small(0))
    ELSE OneIfZeroV(self)

(***************************************************************************)
(* The value lattice exercised: operands drawn from LeafPool, every       *)
(* operation of Value applied to them, and results of add fed back as      *)
(* operands (Add trees previously returned by add).                        *)
(***************************************************************************)
MaxFeed == 1

I32_MIN == <<W15, 0>>

LeafPool ==
    { UNINIT, CALLER_STACK, Param(0), Param(1), ANY,
      ValueI16(1), ValueI16(W16 - 1), ValueU32(Small(0)),
      ValueInt(I32_MIN, "I32"), ValueInt(F32Bits(1), "F32") }

NoResult == <<"none", UNINIT>>

IdleValue ==
    /\ va = UNINIT /\ vb = UNINIT /\ vc = UNINIT
    /\ vres = NoResult /\ vfeed = 0

InitValue ==
    /\ va \in LeafPool /\ vb \in LeafPool /\ vc \in LeafPool
    /\ vres = NoResult /\ vfeed = 0

Apply(op, out) ==
    /\ vres' = <<op, out>>
    /\ UNCHANGED <<va, vb, vc, vfeed>>
    /\ UNCHANGED <<decoderVars, transferVars, fn_address, engineVars>>

DoJoin == Apply("join", Join(va, vb))
DoAdd == Apply("add", Add(va, vb))
DoAddLeft == Apply("add_left", Add(Add(va, vb), vc))
DoAddRight == Apply("add_right", Add(va, Add(vb, vc)))
DoBitOr == Apply("bit_or", bit_or(va, vb))
DoOneIfNegative == Apply("one_if_negative", one_if_negative(va))
DoOneIfPositive == Apply("one_if_positive", one_if_positive(va))
DoOneIfZero == Apply("one_if_zero", one_if_zero(va))

\* an earlier result of add becomes an operand
Feed ==
    /\ vfeed < MaxFeed
    /\ vres[1] \in {"add", "add_left", "add_right"}
    /\ vres[2] # PanicV
    /\ \/ va' = vres[2] /\ UNCHANGED <<vb, vc>>
       \/ vb' = vres[2] /\ UNCHANGED <<va, vc>>
       \/ vc' = vres[2] /\ UNCHANGED <<va, vb>>
    /\ vfeed' = vfeed + 1
    /\ vres' = NoResult
    /\ UNCHANGED <<decoderVars, transferVars, fn_address, engineVars>>

NextValue ==
    \/ DoJoin \/ DoAdd \/ DoAddLeft \/ DoAddRight \/ DoBitOr
    \/ DoOneIfNegative \/ DoOneIfPositive \/ DoOneIfZero \/ Feed

(***************************************************************************)
(* The Int constructors and VInt::add on Ints of every type and on         *)
(* payloads wider than the type                                            *)
(***************************************************************************)
\* 0x1FF, 0x18000, 0xFFFFFFFF, 1
PayloadPool == { <<0, 511>>, <<1, W15>>, <<W16 - 1, W16 - 1>>, <<0, 1>> }

\* what Value::int returns on the payloads, and the float 1.0
IntPool ==
    { ValueInt(p, ty) : p \in PayloadPool, ty \in IntTypes \ {"F32"} }
        \cup { ValueInt(F32Bits(1), "F32") }

InitInt ==
    /\ va \in IntPool /\ vb \in IntPool /\ vc = UNINIT
    /\ vres = NoResult /\ vfeed = 0

\* Value::int on the payload of a and the type of b; Value::u32 and
\* Value::i16 on the payload of a (its low 16 bits as the i16)
DoInt == Apply("int", ValueInt(va[2], vb[3]))
DoU32 == Apply("u32", ValueU32(va[2]))
DoI16 == Apply("i16", ValueI16(va[2][2]))
\* a.add(b) on the two VInt
DoVIntAdd == Apply("vint_add", VIntAdd(VIntOf(va), VIntOf(vb)))

NextInt == DoInt \/ DoU32 \/ DoI16 \/ DoVIntAdd \/ DoAdd \/ DoBitOr

(***************************************************************************)
(* Instructions (as disasm.rs matches them), tag first:                    *)
(*   <<"Stwu", source, dest, imm>>   <<"Stw", source, dest, imm>>          *)
(*   <<"Lwz", dest, source, imm>>    <<"Addi", dest, source, imm>>         *)
(*   <<"Or", source, dest, or_with, rc>>                                   *)
(*   <<"Mfspr", dest, spr>>          <<"Mtspr", source, spr>>              *)
(*   <<"Branch", target, mode, link>>                                      *)
(*   <<"Bc", bo, bi, target, mode, link>>   <<"Bclr", bo, bi, link>>       *)
(* and any other mnemonic <<name, ...>>, which the transfer function does  *)
(* not model. An i16 immediate is its 16 bits, 0 .. 2^16 - 1.              *)
(***************************************************************************)
NumGprs == 32
NumCrFields == 8
GprZero == 0
GprReturn == 3

\* compute_branch_target; the checked_add_signed(..).unwrap() panics when the
\* sum leaves u32 (from below here: addresses of the model stay far under 2^32)
compute_branch_target(base, mode, target) ==
    IF mode = "Absolute" THEN target
    ELSE IF base + target < 0 THEN -1
    ELSE base + target

(***************************************************************************)
(* BlockState                                                              *)
(***************************************************************************)
UninitCr == [lt |-> UNINIT, gt |-> UNINIT, eq |-> UNINIT, so |-> UNINIT]
UninitXer == [so |-> UNINIT, ov |-> UNINIT, ca |-> UNINIT]

\* impl Default for BlockState
DefaultState ==
    [ gprs |-> [i \in 0..(NumGprs - 1) |->
                 [ value_read |-> FALSE,
                   value |-> IF i = 1 THEN CALLER_STACK
                             ELSE IF i >= 3 /\ i < 3 + 8 THEN parameter(i - 3)
                             ELSE UNINIT ]],
      sprs |-> [ lr |-> RETURN_ADDRESS, ctr |-> UNINIT, xer |-> UninitXer,
                 msr |-> UNINIT, cr |-> [f \in 0..(NumCrFields - 1) |-> UninitCr] ],
      memory |-> <<>>,
      diverging |-> FALSE ]

gpr_value(st, gpr) == st.gprs[gpr].value
set_gpr_value(st, gpr, value) == [st EXCEPT !.gprs[gpr].value = value]
set_gpr_read(st, gpr, read) == [st EXCEPT !.gprs[gpr].value_read = read]

SupportedSprs == {"Lr", "Ctr", "Msr"}
\* BlockState::spr, defined on SupportedSprs (todo!() on Xer, Pc, Other)
spr(st, r) ==
    CASE r = "Lr" -> st.sprs.lr [] r = "Ctr" -> st.sprs.ctr [] r = "Msr" -> st.sprs.msr
\* BlockState::set_spr, defined on SupportedSprs
set_spr(st, r, value) ==
    CASE r = "Lr" -> [st EXCEPT !.sprs.lr = value]
      [] r = "Ctr" -> [st EXCEPT !.sprs.ctr = value]
      [] r = "Msr" -> [st EXCEPT !.sprs.msr = value]

\* BlockState::mem_store: BTreeMap::insert
mem_store(st, address, value) ==
    [st EXCEPT !.memory = [k \in (DOMAIN st.memory) \cup {address} |->
                              IF k = address THEN value ELSE st.memory[k]]]
\* BlockState::mem_load_opt
mem_has(st, address) == address \in DOMAIN st.memory

\* BlockState::update_cr_field
update_cr_field(st, field, value) ==
    [st EXCEPT !.sprs.cr[field] =
        [ eq |-> one_if_zero(value), gt |-> one_if_positive(value),
          lt |-> one_if_negative(value), so |-> st.sprs.xer.so ]]

\* a clobber that resets the GPRs and leaves the special registers alone
clobber_gprs_only(st) ==
    [st EXCEPT
        !.gprs = [i \in 0..(NumGprs - 1) |->
                    IF i <= 12 /\ i # 1
                    THEN [value_read |-> FALSE, value |-> UNINIT]
                    ELSE st.gprs[i]]]

\* BlockState::clobber_caller_saved
clobber_caller_saved(st) ==
    [st EXCEPT
        !.gprs = [i \in 0..(NumGprs - 1) |->
                    IF i <= 12 /\ i # 1
                    THEN [value_read |-> FALSE, value |-> UNINIT]
                    ELSE st.gprs[i]],
        !.sprs = [ lr |-> UNINIT, ctr |-> UNINIT, xer |-> UninitXer, msr |-> UNINIT,
                   cr |-> [f \in 0..(NumCrFields - 1) |-> UninitCr] ]]

\* RegisterState::join
RegisterJoin(a, b) ==
    [value_read |-> a.value_read \/ b.value_read, value |-> Join(a.value, b.value)]

Ok(st) == [ok |-> TRUE, st |-> st, why |-> "ok"]
Fail(st, why) == [ok |-> FALSE, st |-> st, why |-> why]

\* BlockState::join: the assertion, the two early returns, and the struct
\* expression whose `sprs: todo!()` is evaluated right after the GPR array
join_states(a, b) ==
    IF a.diverging /\ b.diverging THEN Fail(a, "join: both diverging")
    ELSE IF a.diverging THEN Ok(b)
    ELSE IF b.diverging THEN Ok(a)
    ELSE Fail([a EXCEPT !.gprs = [i \in 0..(NumGprs - 1) |-> RegisterJoin(a.gprs[i], b.gprs[i])]],
              "join: not yet implemented")

\* Instruction::for_each_read_gpr: the source and base registers
ReadGprs(inst) ==
    CASE inst[1] \in {"Stwu", "Stw"} -> {inst[2], inst[3]}
      [] inst[1] \in {"Lwz", "Addi"} -> {inst[3]}
      [] inst[1] = "Or" -> {inst[2], inst[4]}
      [] inst[1] = "Mtspr" -> {inst[2]}
      [] OTHER -> {}

MarkRead(st, regs) ==
    [st EXCEPT !.gprs = [i \in 0..(NumGprs - 1) |->
                            IF i \in regs THEN [st.gprs[i] EXCEPT !.value_read = TRUE]
                            ELSE st.gprs[i]]]

\* the arms of apply_effect; ea and result are the Value::add / bit_or results
StwuEffect(st, inst, ea) ==
    IF ea = PanicV THEN Fail(st, "add")
    ELSE Ok(mem_store(set_gpr_value(st, inst[3], ea), ea, gpr_value(st, inst[2])))
OrEffect(st, inst, result) ==
    IF result = PanicV THEN Fail(st, "bit_or: assert_eq")
    ELSE IF inst[5] THEN Ok(update_cr_field(set_gpr_value(st, inst[3], result), 0, result))
    ELSE Ok(set_gpr_value(st, inst[3], result))
AddiEffect(st, inst, result) ==
    IF result = PanicV THEN Fail(st, "add") ELSE Ok(set_gpr_value(st, inst[2], result))
StwEffect(st, inst, ea) ==
    IF ea = PanicV THEN Fail(st, "add") ELSE Ok(mem_store(st, ea, gpr_value(st, inst[2])))
\* a load that yields Any from an address that was never written
LwzEffectLenient(st, inst, ea) ==
    IF ea = PanicV THEN Fail(st, "add")
    ELSE Ok(set_gpr_value(st, inst[2], IF mem_has(st, ea) THEN st.memory[ea] ELSE ANY))
LwzEffect(st, inst, ea) ==
    IF ea = PanicV THEN Fail(st, "add")
    ELSE IF ~mem_has(st, ea) THEN Fail(st, "memory read from uninitialized address")
    ELSE Ok(set_gpr_value(st, inst[2], st.memory[ea]))
\* Branch and Bc: st is the clobbered state, target the computed branch target
CallEffect(st, link, target) ==
    IF ~link THEN Ok(st)
    ELSE IF target < 0 THEN Fail(st, "compute_branch_target: unwrap")
    ELSE Ok(set_gpr_value(st, GprReturn, call_result(target)))

\* the match of apply_effect, after the read registers are marked
Effect(st, inst_addr, inst) ==
    CASE inst[1] = "Stwu" ->
           StwuEffect(st, inst, Add(gpr_value(st, inst[3]), ValueI16(inst[4])))
      [] inst[1] = "Or" ->
           OrEffect(st, inst, IF inst[2] = inst[4] THEN gpr_value(st, inst[2])
                              ELSE bit_or(gpr_value(st, inst[2]), gpr_value(st, inst[4])))
      [] inst[1] = "Mfspr" ->
           IF inst[3] \in SupportedSprs
           THEN Ok(set_gpr_value(st, inst[2], spr(st, inst[3])))
           ELSE Fail(st, "spr: not yet implemented")
      [] inst[1] = "Addi" ->
           IF inst[3] = GprZero THEN Ok(set_gpr_value(st, inst[2], ValueI16(inst[4])))
           ELSE AddiEffect(st, inst, Add(gpr_value(st, inst[3]), ValueI16(inst[4])))
      [] inst[1] = "Stw" ->
           StwEffect(st, inst, Add(gpr_value(st, inst[3]), ValueI16(inst[4])))
      [] inst[1] = "Branch" ->
           CallEffect(clobber_caller_saved(st), inst[4],
                      compute_branch_target(inst_addr, inst[3], inst[2]))
      [] inst[1] = "Bc" ->
           CallEffect(clobber_caller_saved(st), inst[6],
                      compute_branch_target(inst_addr, inst[5], inst[4]))
      [] inst[1] = "Lwz" ->
           LwzEffect(st, inst, IF inst[3] = GprZero THEN ValueI16(inst[4])
                               ELSE Add(gpr_value(st, inst[3]), ValueI16(inst[4])))
      [] inst[1] = "Mtspr" ->
           IF inst[3] \in SupportedSprs
           THEN Ok(set_spr(st, inst[3], gpr_value(st, inst[2])))
           ELSE Fail(st, "set_spr: not yet implemented")
      [] inst[1] = "Bclr" -> Ok([st EXCEPT !.diverging = TRUE])
      [] OTHER -> Fail(st, "apply_effect: not yet implemented")

\* Analysis::apply_effect (self.fn_address is the variable fn_address)
apply_effect(st0, idx, inst) ==
    Effect(MarkRead(st0, ReadGprs(inst)), fn_address + 4 * idx, inst)

(***************************************************************************)
(* The raw decoder (ppc32): Word field extraction and the opcode table     *)
(***************************************************************************)
\* Word::u32::<FROM, TO>() on <<hi, lo>>; bit 0 is the most significant
WordU32(w, from, to) ==
    IF to <= 15 THEN (w[1] \div 2^(15 - to)) % 2^(to - from + 1)
    ELSE IF from >= 16 THEN (w[2] \div 2^(31 - to)) % 2^(to - from + 1)
    ELSE (w[1] % 2^(16 - from)) * 2^(to - 15) + (w[2] \div 2^(31 - to))

\* Word::bit::<BIT>() != 0
WordBit(w, bit) == WordU32(w, bit, bit) # 0

\* a field read as a two's-complement number of its own width
WordI32SignExtended(w, from, to) ==
    LET u == WordU32(w, from, to) IN
    IF u >= 2^(to - from) THEN u - 2^(to - from + 1) ELSE u

\* Word::i32::<FROM, TO>(): the u32 of the field cast to i32; a field
\* narrower than 32 bits is below 2^31, which the cast leaves as it is
WordI32(w, from, to) == WordU32(w, from, to)
\* Word::opcode, Word::xform_opcode
opcode(w) == w[1] \div 2^10
xform_opcode(w) == WordU32(w, 21, 30)

\* AddressingMode::from_absolute_bit
from_absolute_bit(b) == IF b THEN "Absolute" ELSE "Relative"

\* bitwise and of two 5-bit masks
RECURSIVE And5(_, _)
And5(a, b) ==
    IF a = 0 \/ b = 0 THEN 0
    ELSE (IF a % 2 = 1 /\ b % 2 = 1 THEN 1 ELSE 0) + 2 * And5(a \div 2, b \div 2)

\* a from_word whose last arms test the top bit of BO only
BranchOptionsTopBit(mask) ==
    IF And5(mask, 30) \in {2, 0} THEN "DecCTRBranchIfFalse"
    ELSE IF And5(mask, 28) = 4 THEN "BranchIfFalse"
    ELSE IF And5(mask, 30) \in {8, 10} THEN "DecCTRBranchIfTrue"
    ELSE IF And5(mask, 28) = 12 THEN "BranchIfTrue"
    ELSE IF And5(mask, 16) = 16 THEN "DecCTRBranchIfNotZero"
    ELSE "Panic"

\* a from_word whose last arm accepts the mask 0b10100 alone
BranchOptionsExactAlways(mask) ==
    IF And5(mask, 30) \in {2, 0} THEN "DecCTRBranchIfFalse"
    ELSE IF And5(mask, 28) = 4 THEN "BranchIfFalse"
    ELSE IF And5(mask, 30) \in {8, 10} THEN "DecCTRBranchIfTrue"
    ELSE IF And5(mask, 28) = 12 THEN "BranchIfTrue"
    ELSE IF And5(mask, 22) = 16 THEN "DecCTRBranchIfNotZero"
    ELSE IF And5(mask, 22) = 18 THEN "DecCTRBranchIfZero"
    ELSE IF mask = 20 THEN "BranchAlways"
    ELSE "Panic"

\* BranchOptions::from_word on the BO field; "Panic" when the assertion fails
BranchOptionsOf(mask) ==
    IF And5(mask, 30) \in {2, 0} THEN "DecCTRBranchIfFalse"
    ELSE IF And5(mask, 28) = 4 THEN "BranchIfFalse"
    ELSE IF And5(mask, 30) \in {8, 10} THEN "DecCTRBranchIfTrue"
    ELSE IF And5(mask, 28) = 12 THEN "BranchIfTrue"
    ELSE IF And5(mask, 22) = 16 THEN "DecCTRBranchIfNotZero"
    ELSE IF And5(mask, 22) = 18 THEN "DecCTRBranchIfZero"
    ELSE IF And5(mask, 20) = 20 THEN "BranchAlways"
    ELSE "Panic"
BranchOptionsFromWord(w) == BranchOptionsOf(WordU32(w, 6, 10))

\* SpecialPurposeRegister::from_word
SprFromWord(w) ==
    LET code == WordU32(w, 11, 15) + 32 * WordU32(w, 16, 20)
    IN  CASE code = 1 -> "Xer" [] code = 8 -> "Lr" [] code = 9 -> "Ctr" [] OTHER -> "Other"

EXTENDED_OPCODE == 31

\* the define_instructions! table: <<name, op, xform_op>>, -1 where none is given
OpcodeTable ==
    << <<"Branch", 18, -1>>, <<"Rlwnm", 23, -1>>, <<"Rlwinm", 21, -1>>,
       <<"Addis", 15, -1>>, <<"Addi", 14, -1>>, <<"Ori", 24, -1>>,
       <<"Cmpli", 10, -1>>, <<"Cmpi", 11, -1>>,
       <<"Cmpl", EXTENDED_OPCODE, 32>>, <<"Cmp", EXTENDED_OPCODE, 0>>,
       <<"Bc", 16, -1>>, <<"Bclr", 19, 16>>, <<"Stwu", 37, -1>>,
       <<"Stwux", EXTENDED_OPCODE, 183>>, <<"Subf", EXTENDED_OPCODE, 40>>,
       <<"Mfspr", EXTENDED_OPCODE, 339>>, <<"Mtspr", EXTENDED_OPCODE, 467>>,
       <<"Mfmsr", EXTENDED_OPCODE, 83>>, <<"Mtmsr", EXTENDED_OPCODE, 146>>,
       <<"Or", EXTENDED_OPCODE, 444>>, <<"And", EXTENDED_OPCODE, 28>>,
       <<"Stw", 36, -1>>, <<"Stmw", 47, -1>>, <<"Lwz", 32, -1>>, <<"Lwzu", 33, -1>>,
       <<"Isync", 19, 150>>, <<"Hwsync", EXTENDED_OPCODE, 598>>, <<"Oris", 25, -1>>,
       <<"Mtfsb1", 63, 38>>, <<"Lmw", 46, -1>>, <<"Mftb", EXTENDED_OPCODE, 371>>,
       <<"Lhz", 40, -1>>, <<"Lbz", 34, -1>>, <<"Neg", EXTENDED_OPCODE, 104>>,
       <<"Crxor", 19, 193>>, <<"Add", EXTENDED_OPCODE, 266>> >>

\* the first arm of the match that fits (op, xform_op); 0 when none does
RECURSIVE MatchArm(_, _, _)
MatchArm(op, xop, i) ==
    IF i > Len(OpcodeTable) THEN 0
    ELSE IF OpcodeTable[i][2] = op /\ OpcodeTable[i][3] \in {-1, xop} THEN i
    ELSE MatchArm(op, xop, i + 1)

\* Instruction::parse_<name>: the fields of the variants the analysis reads
ParseFields(name, w) ==
    CASE name = "Branch" ->
           <<"Branch", 4 * WordI32(w, 6, 29), from_absolute_bit(WordBit(w, 30)), WordBit(w, 31)>>
      [] name = "Bc" ->
           <<"Bc", BranchOptionsFromWord(w), WordU32(w, 11, 15), 4 * WordI32(w, 16, 29),
             from_absolute_bit(WordBit(w, 30)), WordBit(w, 31)>>
      [] name = "Bclr" ->
           <<"Bclr", BranchOptionsFromWord(w), WordU32(w, 11, 15), WordBit(w, 31)>>
      [] name \in {"Addi", "Lwz"} ->
           <<name, WordU32(w, 6, 10), WordU32(w, 11, 15), w[2]>>
      [] name \in {"Stw", "Stwu"} ->
           <<name, WordU32(w, 6, 10), WordU32(w, 11, 15), w[2]>>
      [] name = "Or" ->
           <<"Or", WordU32(w, 6, 10), WordU32(w, 11, 15), WordU32(w, 16, 20), WordBit(w, 31)>>
      [] name \in {"Mfspr", "Mtspr"} -> <<name, WordU32(w, 6, 10), SprFromWord(w)>>
      [] OTHER -> <<name, w>>

\* Decoder::decode_from_word: the instruction, or <<"UnhandledOpcode", word>>,
\* or <<"Panic">> when BranchOptions::from_word asserts
Parsed(ins) == IF ins[1] \in {"Bc", "Bclr"} /\ ins[2] = "Panic" THEN <<"Panic">> ELSE ins
DecodeArm(arm, w) ==
    IF arm = 0 THEN <<"UnhandledOpcode", w>> ELSE Parsed(ParseFields(OpcodeTable[arm][1], w))
decode_from_word(w) == DecodeArm(MatchArm(opcode(w), xform_opcode(w), 1), w)

\* the remaining input is a sequence of words <<hi, lo>>, followed by <<n>>
\* when n = 1..3 bytes trail the last whole word; split_at_checked(4) is
\* Some exactly when a whole word is at the front
HasWord(inp) == inp # <<>> /\ Len(Head(inp)) = 2

\* an UnhandledOpcode that carries the offset behind the word
DecodeResultBehindWord(d, inp, off) ==
    [ ret |-> IF d[1] = "UnhandledOpcode"
              THEN <<"Err", "UnhandledOpcode", d[2], off + 4>>
              ELSE d,
      input |-> Tail(inp), offset |-> off + 4 ]

\* Decoder::decode_instruction on the remaining words and the byte offset:
\* what it returns and the decoder's fields afterwards
DecodeResult(d, inp, off) ==
    [ ret |-> IF d[1] = "UnhandledOpcode"
              THEN <<"Err", "UnhandledOpcode", d[2], (off + 4) - 4>>
              ELSE d,
      input |-> Tail(inp), offset |-> off + 4 ]
decode_instruction(inp, off) ==
    IF ~HasWord(inp)
    THEN [ret |-> <<"Err", "UnexpectedEof", off>>, input |-> inp, offset |-> off]
    ELSE DecodeResult(decode_from_word(Head(inp)), inp, off)

(***************************************************************************)
(* The function-window decoder: next_instruction_with_offset               *)
(***************************************************************************)
Unbounded == <<"Unbounded">>
Bounded(e) == <<"Bounded", e>>

\* a conditional Bc whose interval is recorded
IsConditionalBc(inst) ==
    inst[1] = "Bc" /\ ~inst[6] /\ inst[2] # "BranchAlways"

\* an unconditional return or an unconditional unlinked branch
IsUnconditionalEnd(inst) ==
    \/ inst[1] = "Bclr" /\ inst[2] = "BranchAlways" /\ ~inst[4]
    \/ inst[1] = "Branch" /\ ~inst[4]

\* instr_addr lies in a recorded interval [bc_addr, bc_target)
InsideConditional(ranges, instr_addr) ==
    \E i \in 1..Len(ranges) : ranges[i][1] <= instr_addr /\ instr_addr < ranges[i][2]

\* a bound that would still admit the instruction at e
PastBoundedEndStrict(r, instr_addr) == r.end[1] = "Bounded" /\ instr_addr > r.end[2]

\* range.end == Bounded(e) and instr_addr >= e
PastBoundedEnd(r, instr_addr) == r.end[1] = "Bounded" /\ instr_addr >= r.end[2]

NoMore == <<"NoMore">>

\* the window's bookkeeping once the raw decoder returned d at instr_addr
AfterDecode(d, inst, instr_addr) ==
    /\ input' = d.input
    /\ offset' = d.offset
    /\ UNCHANGED <<buffer, range>>
    /\ IF inst[1] \in {"Err", "Panic"}
       THEN /\ last_ret' = inst
            /\ UNCHANGED <<reached_end, conditional_ranges, yielded>>
       ELSE /\ conditional_ranges' =
                 IF IsConditionalBc(inst)
                 THEN Append(conditional_ranges,
                             <<instr_addr, compute_branch_target(instr_addr, inst[5], inst[4])>>)
                 ELSE conditional_ranges
            /\ reached_end' =
                 (\/ reached_end
                  \/ /\ IsUnconditionalEnd(inst)
                     /\ range.end[1] = "Unbounded"
                     /\ ~InsideConditional(conditional_ranges, instr_addr))
            /\ yielded' = Append(yielded, <<instr_addr, inst>>)
            /\ last_ret' = <<"Some", instr_addr, inst>>

Decoded(d, instr_addr) == AfterDecode(d, d.ret, instr_addr)

\* a window that forgets reached_end once it has answered "no more"
NextInstructionResuming ==
    /\ last_ret[1] # "Panic"
    /\ IF PastBoundedEnd(range, range.start + offset) \/ reached_end
       THEN /\ last_ret' = NoMore
            /\ reached_end' = FALSE
            /\ UNCHANGED <<buffer, input, offset, range, conditional_ranges, yielded>>
       ELSE Decoded(decode_instruction(input, offset), range.start + offset)
    /\ UNCHANGED <<valueVars, transferVars, fn_address, engineVars>>

NextInstruction ==
    /\ last_ret[1] # "Panic"
    /\ IF PastBoundedEnd(range, range.start + offset) \/ reached_end
       THEN /\ last_ret' = NoMore
            /\ UNCHANGED <<buffer, input, offset, range, reached_end, conditional_ranges, yielded>>
       ELSE Decoded(decode_instruction(input, offset), range.start + offset)
    /\ UNCHANGED <<valueVars, transferVars, fn_address, engineVars>>

MaxWords == 4

AddiWord == <<14432, 1>>
StwWord == <<36961, 0>>
BlrWord == <<20096, 32>>
GarbageWord == <<0, 0>>
BneWord == <<16514, 8>>
BWord == <<18432, 8>>
WordPool == {AddiWord, StwWord, BlrWord, GarbageWord, BneWord, BWord}

WindowStart == 2^8
RangePool ==
    { [start |-> WindowStart, end |-> Unbounded],
      [start |-> WindowStart, end |-> Bounded(WindowStart + 8)] }

SeqsUpTo(S, n) == UNION {[1..k -> S] : k \in 1..n}

IdleDecoder ==
    /\ buffer = <<>> /\ input = <<>> /\ offset = 0
    /\ range = [start |-> 0, end |-> Unbounded]
    /\ reached_end = FALSE /\ conditional_ranges = <<>>
    /\ yielded = <<>> /\ last_ret = <<"none">>

\* Decoder::new(buffer, range)
InitDecoder ==
    /\ buffer \in SeqsUpTo(WordPool, MaxWords)
    /\ input = buffer /\ offset = 0
    /\ range \in RangePool
    /\ reached_end = FALSE /\ conditional_ranges = <<>>
    /\ yielded = <<>> /\ last_ret = <<"none">>

(***************************************************************************)
(* The raw decoder called repeatedly on a byte buffer                      *)
(***************************************************************************)
MaxRawWords == 3

\* primary opcode 0b011111 with the extended opcode 1, which has no entry
UnknownExtendedWord == <<31744, 2>>
RawWordPool == WordPool \cup {UnknownExtendedWord}
\* bc BO,2,+8 and bclr BO,0 for each of the 32 values of the BO field
BcWord(bo) == <<16384 + 32 * bo + 2, 8>>
BclrWord(bo) == <<19456 + 32 * bo, 32>>
\* b and bne whose displacement field has its top bit set (the encodings of
\* b -8, ba -8, bne -8, bnea -8) and the largest fields (0x49fffffc, 0x40827ffc)
TopBitWords ==
    { <<19455, 65528>>, <<19455, 65530>>, <<16514, 65528>>, <<16514, 65530>>,
      <<18943, 65532>>, <<16514, 32764>> }
BranchWords ==
    { BcWord(bo) : bo \in 0..31 } \cup { BclrWord(bo) : bo \in 0..31 } \cup TopBitWords
\* no byte, one byte or three bytes behind the last whole word
TrailingBytes == { <<>>, << <<1>> >>, << <<3>> >> }

InitRaw ==
    /\ buffer \in { ws \o t : ws \in SeqsUpTo(RawWordPool, MaxRawWords)
                                        \cup { <<w>> : w \in BranchWords } \cup {<<>>},
                                t \in TrailingBytes }
    /\ input = buffer /\ offset = 0
    /\ range = [start |-> 0, end |-> Unbounded]
    /\ reached_end = FALSE /\ conditional_ranges = <<>>
    /\ yielded = <<>> /\ last_ret = <<"none">>

\* one call of Decoder::decode_instruction
DecodeInstruction ==
    /\ last_ret[1] # "Panic"
    /\ LET r == decode_instruction(input, offset) IN
       /\ last_ret' = r.ret
       /\ input' = r.input
       /\ offset' = r.offset
    /\ UNCHANGED <<buffer, range, reached_end, conditional_ranges, yielded>>
    /\ UNCHANGED <<valueVars, transferVars, fn_address, engineVars>>

(***************************************************************************)
(* The transfer function applied to a free instruction sequence from the   *)
(* function-entry state                                                    *)
(***************************************************************************)
MaxSteps == 3

\* li r3,5; li r4,8; addi r4,r11,1; addi r1,r1,16; stwu r1,-16(r1);
\* stw r31,12(r1); stw r3,0(r4); lwz r31,12(r1); lwz r5,8(r0); mr r4,r3; or. r5,r3,r4; mflr r0; mtlr r0; bl +8; b +8;
\* bne +8; bnel +8; blr; cmpi
TransferPool ==
    { <<"Addi", 3, 0, 5>>, <<"Addi", 4, 0, 8>>, <<"Addi", 4, 11, 1>>, <<"Addi", 1, 1, 16>>,
      <<"Stwu", 1, 1, W16 - 16>>, <<"Stw", 31, 1, 12>>, <<"Stw", 3, 4, 0>>,
      <<"Lwz", 31, 1, 12>>, <<"Lwz", 5, 0, 8>>,
      <<"Or", 3, 4, 3, FALSE>>, <<"Or", 3, 5, 4, TRUE>>,
      <<"Mfspr", 0, "Lr">>, <<"Mtspr", 0, "Lr">>,
      <<"Branch", 8, "Relative", TRUE>>, <<"Branch", 8, "Relative", FALSE>>,
      <<"Bc", "BranchIfFalse", 2, 8, "Relative", FALSE>>,
      <<"Bc", "BranchIfFalse", 2, 8, "Relative", TRUE>>,
      <<"Bclr", "BranchAlways", 0, FALSE>>,
      <<"Cmpi", 0>> }

FnAddressPool == {0, 2^8}

IdleTransfer == tstate = DefaultState /\ tsteps = 0 /\ tstatus = "idle"

InitTransfer == tstate = DefaultState /\ tsteps = 0 /\ tstatus = "ok"

TransferResult(r) == tstate' = r.st /\ tstatus' = r.why

\* one more instruction of the sequence: apply_effect at index tsteps
Transfer(inst) ==
    /\ tstatus = "ok"
    /\ tsteps < MaxSteps
    /\ TransferResult(apply_effect(tstate, tsteps, inst))
    /\ tsteps' = tsteps + 1
    /\ UNCHANGED <<fn_address, valueVars, decoderVars, engineVars>>

NextTransfer == \E inst \in TransferPool : Transfer(inst)

(***************************************************************************)
(* The worklist engine: dataflow::run over Analysis                        *)
(***************************************************************************)
\* Analysis::initial_idx
initial_idx == 0

Id(s) == <<"Id", s>>
Return == <<"Return">>

\* the address the windowed decoder recorded for the instruction at idx
InstAddr(idx) == fn_address + 4 * idx

\* a control-flow builder that lets a Bclr fall through to the next index
SuccsWithBclrFallThrough(is, idx) ==
    LET inst == is[idx + 1] IN
    IF inst[1] = "Bc" /\ ~inst[6]
    THEN LET target == compute_branch_target(InstAddr(idx), inst[5], inst[4]) IN
         (IF target >= fn_address THEN <<Id((target - fn_address) \div 4)>> ELSE <<>>)
            \o <<Id(idx + 1)>>
    ELSE IF inst[1] = "Bclr" THEN <<Id(idx + 1)>>
    ELSE <<>>

\* Analysis::compute_preds_and_succs: the successor list stored for idx,
\* <<>> when succs has no entry for idx
SuccsOf(is, idx) ==
    LET inst == is[idx + 1] IN
    IF inst[1] = "Bc" /\ ~inst[6]
    THEN LET target == compute_branch_target(InstAddr(idx), inst[5], inst[4]) IN
         (IF target >= fn_address THEN <<Id((target - fn_address) \div 4)>> ELSE <<>>)
            \o <<Id(idx + 1)>>
    ELSE IF inst[1] = "Bclr" THEN <<Return>>
    ELSE <<>>

\* the assert!(!link, ..) on a Bclr
GraphPanics(is) == \E i \in 1..Len(is) : is[i][1] = "Bclr" /\ is[i][4]

\* a run that would start from the map the previous run left behind
KeptEntryStates == entry_states

\* the entry_states map of a run that begins: HashMap::default()
NewEntryStates == <<>>

HasEntry(es, s) == s \in DOMAIN es
\* an insert that records the state under the index behind s
InsertBehind(es, s, st) ==
    [k \in (DOMAIN es) \cup {s + 1} |-> IF k = s + 1 THEN st ELSE es[k]]

\* entry_states.insert(s, st)
Insert(es, s, st) == [k \in (DOMAIN es) \cup {s} |-> IF k = s THEN st ELSE es[k]]

\* a successor loop that stops behind the first successor and leaves a
\* successor that has an entry state alone
PropagateFirstOnly(succs, i, st, q, es) ==
    IF succs[1][1] = "Id" /\ ~HasEntry(es, succs[1][2])
    THEN [ok |-> TRUE, queue |-> Append(q, succs[1][2]),
          entry_states |-> Insert(es, succs[1][2], st), why |-> "ok"]
    ELSE [ok |-> TRUE, queue |-> q, entry_states |-> es, why |-> "ok"]

\* the loop over the successors of one index: the queue and entry_states
\* afterwards, or the panic inside join_states
RECURSIVE Propagate(_, _, _, _, _)
Propagate(succs, i, st, q, es) ==
    IF i > Len(succs) THEN [ok |-> TRUE, queue |-> q, entry_states |-> es, why |-> "ok"]
    ELSE IF succs[i][1] # "Id" THEN Propagate(succs, i + 1, st, q, es)
    ELSE LET succ == succs[i][2] IN
         IF HasEntry(es, succ)
         THEN LET j == join_states(st, es[succ]) IN
              IF ~j.ok THEN [ok |-> FALSE, queue |-> q, entry_states |-> es, why |-> j.why]
              ELSE IF j.st # es[succ]
              THEN Propagate(succs, i + 1, st, Append(q, succ), Insert(es, succ, j.st))
              ELSE Propagate(succs, i + 1, st, q, es)
         ELSE Propagate(succs, i + 1, st, Append(q, succ), Insert(es, succ, st))

\* run, lines 74-80: the queue, the maps, compute_preds_and_succs
Start ==
    /\ pc = "start"
    /\ queue' = <<initial_idx>>
    /\ entry_states' = NewEntryStates
    /\ IF GraphPanics(insts)
       THEN pc' = "panic" /\ panic' = "linking bclr not supported yet"
       ELSE pc' = "loop" /\ UNCHANGED panic
    /\ UNCHANGED <<insts, state, cursor, run_no, first_result>>
    /\ UNCHANGED <<valueVars, decoderVars, transferVars, fn_address, signatureVars>>

\* while let Some(idx) = queue.pop(): the state the block starts from
ProcessNext ==
    /\ pc = "loop"
    /\ queue # <<>>
    /\ LET idx == queue[Len(queue)] IN
       /\ queue' = SubSeq(queue, 1, Len(queue) - 1)
       /\ cursor' = idx
       /\ IF HasEntry(entry_states, idx)
          THEN state' = entry_states[idx] /\ pc' = "block" /\ UNCHANGED panic
          ELSE IF idx = initial_idx
          THEN state' = DefaultState /\ pc' = "block" /\ UNCHANGED panic
          ELSE pc' = "panic" /\ panic' = "assert_eq idx initial_idx" /\ UNCHANGED state
    /\ UNCHANGED <<insts, entry_states, run_no, first_result>>
    /\ UNCHANGED <<valueVars, decoderVars, transferVars, fn_address, signatureVars>>

\* after the loop over the successors: back to the worklist, or the panic
AfterPropagate(p) ==
    /\ queue' = p.queue
    /\ entry_states' = p.entry_states
    /\ IF p.ok THEN pc' = "loop" /\ UNCHANGED panic
       ELSE pc' = "panic" /\ panic' = p.why
    /\ UNCHANGED cursor

\* after apply_effect returned r at an index whose successor list is succs
AfterEffect(r, succs) ==
    /\ state' = r.st
    /\ IF ~r.ok
       THEN /\ pc' = "panic" /\ panic' = r.why
            /\ UNCHANGED <<queue, entry_states, cursor>>
       ELSE IF succs = <<>>
       THEN /\ cursor' = cursor + 1
            /\ UNCHANGED <<queue, entry_states, pc, panic>>
       ELSE AfterPropagate(Propagate(succs, 1, r.st, queue, entry_states))

\* one item of iter_block: apply_effect, then the successors if idx has any
ApplyItem ==
    /\ pc = "block"
    /\ cursor < Len(insts)
    /\ AfterEffect(apply_effect(state, cursor, insts[cursor + 1]), SuccsOf(insts, cursor))
    /\ UNCHANGED <<insts, run_no, first_result>>
    /\ UNCHANGED <<valueVars, decoderVars, transferVars, fn_address, signatureVars>>

\* iter_block is exhausted without meeting a successor edge
BlockEnd ==
    /\ pc = "block"
    /\ cursor >= Len(insts)
    /\ pc' = "loop"
    /\ UNCHANGED <<insts, queue, entry_states, state, cursor, panic, run_no, first_result>>
    /\ UNCHANGED <<valueVars, decoderVars, transferVars, fn_address, signatureVars>>

\* the queue is empty: Results { states: entry_states }
Finish ==
    /\ pc = "loop"
    /\ queue = <<>>
    /\ pc' = "done"
    /\ UNCHANGED <<insts, queue, entry_states, state, cursor, panic, run_no, first_result>>
    /\ UNCHANGED <<valueVars, decoderVars, transferVars, fn_address, signatureVars>>

Outcome == [pc |-> pc, panic |-> panic, entry_states |-> entry_states]
NoOutcome == [pc |-> "none", panic |-> "", entry_states |-> <<>>]

\* the engine is run a second time on the same analysis
RunAgain ==
    /\ pc \in {"done", "panic"}
    /\ run_no = 1
    /\ first_result' = Outcome
    /\ run_no' = 2
    /\ pc' = "start"
    /\ panic' = ""
    /\ state' = DefaultState
    /\ cursor' = 0
    /\ UNCHANGED <<insts, queue, entry_states>>
    /\ UNCHANGED <<valueVars, decoderVars, transferVars, fn_address, signatureVars>>

\* Instruction::visit_registers: the registers handed to read_gpr, in order
VisitedReads(inst) ==
    CASE inst[1] \in {"Stwu", "Stw"} -> <<inst[2], inst[3]>>
      [] inst[1] \in {"Lwz", "Addi"} -> <<inst[3]>>
      [] inst[1] = "Or" -> <<inst[2], inst[4]>>
      [] inst[1] = "Mtspr" -> <<inst[2]>>
      [] OTHER -> <<>>

\* Visitor::read_gpr: st is the state the closure is handed
read_gpr(params, st, gpr) ==
    LET value == st.gprs[gpr].value IN
    IF value[1] = "Param" /\ \A k \in 1..Len(params) : params[k] # value[2]
    THEN Append(params, value[2])
    ELSE params

RECURSIVE Visit(_, _, _, _)
Visit(params, st, regs, k) ==
    IF k > Len(regs) THEN params
    ELSE Visit(read_gpr(params, st, regs[k]), st, regs, k + 1)

\* Results::for_each_with_input with the closure of disasm_c: the state
\* returned and the parameters pushed, or the panic inside apply_effect
RECURSIVE ForEachWithInput(_, _, _, _, _)
AfterEffectReplay(is, es, idx, r, params) ==
    IF ~r.ok THEN [ok |-> FALSE, st |-> r.st, params |-> params, why |-> r.why]
    ELSE ForEachWithInput(is, es, idx + 1, r.st,
                          Visit(params, r.st, VisitedReads(is[idx + 1]), 1))
ForEachWithInput(is, es, idx, st, params) ==
    IF idx >= Len(is) THEN [ok |-> TRUE, st |-> st, params |-> params, why |-> "ok"]
    ELSE AfterEffectReplay(is, es, idx,
                           apply_effect(IF HasEntry(es, idx) THEN es[idx] ELSE st,
                                        idx, is[idx + 1]),
                           params)

\* disasm_c from the replay on: the parameter list, the final state and
\* has_return
Reconstructed(f) ==
    /\ parameter_gprs' = f.params
    /\ final_state' = f.st
    /\ IF f.ok
       THEN /\ has_return' = (is_initialized(f.st.gprs[GprReturn].value)
                                /\ ~f.st.gprs[GprReturn].value_read)
            /\ pc' = "reconstructed" /\ UNCHANGED panic
       ELSE /\ pc' = "panic" /\ panic' = f.why /\ UNCHANGED has_return

Replay ==
    /\ pc = "done"
    /\ run_no = 0
    /\ Reconstructed(ForEachWithInput(insts, entry_states, 0, DefaultState, <<>>))
    /\ UNCHANGED <<insts, queue, entry_states, state, cursor, run_no, first_result>>
    /\ UNCHANGED <<valueVars, decoderVars, transferVars, fn_address>>

MaxInsts == 3

\* bne +8; bne +4; bne to absolute 0; bcl +8; blr; blrl; li r3,5;
\* addi r3,r3,1; mr r4,r3; cmpi
InstPool ==
    { <<"Bc", "BranchIfFalse", 2, 8, "Relative", FALSE>>,
      <<"Bc", "BranchIfFalse", 2, 4, "Relative", FALSE>>,
      <<"Bc", "BranchIfFalse", 2, 0, "Absolute", FALSE>>,
      <<"Bc", "BranchIfFalse", 2, 8, "Relative", TRUE>>,
      <<"Bclr", "BranchAlways", 0, FALSE>>, <<"Bclr", "BranchAlways", 0, TRUE>>,
      <<"Addi", 3, 0, 5>>, <<"Addi", 3, 3, 1>>,
      <<"Or", 3, 4, 3, FALSE>>,
      <<"Cmpi", 0>> }

IdleEngine ==
    /\ insts = <<>> /\ queue = <<>> /\ entry_states = <<>>
    /\ state = DefaultState /\ cursor = 0 /\ pc = "idle" /\ panic = ""
    /\ run_no = 0 /\ first_result = NoOutcome
    /\ parameter_gprs = <<>> /\ final_state = DefaultState /\ has_return = FALSE

InitEngine ==
    /\ insts \in SeqsUpTo(InstPool, MaxInsts)
    /\ queue = <<>> /\ entry_states = <<>>
    /\ state = DefaultState /\ cursor = 0 /\ pc = "start" /\ panic = ""
    /\ run_no = 1 /\ first_result = NoOutcome
    /\ parameter_gprs = <<>> /\ final_state = DefaultState /\ has_return = FALSE

MaxSigInsts == 3

\* mr r4,r3; mr r3,r5; li r3,5; addi r3,r3,1; stw r4,8(r1); bl +8;
\* bne +8; blr
SignaturePool ==
    { <<"Or", 3, 4, 3, FALSE>>, <<"Or", 5, 3, 5, FALSE>>,
      <<"Addi", 3, 0, 5>>, <<"Addi", 3, 3, 1>>,
      <<"Stw", 4, 1, 8>>,
      <<"Branch", 8, "Relative", TRUE>>,
      <<"Bc", "BranchIfFalse", 2, 8, "Relative", FALSE>>,
      <<"Bclr", "BranchAlways", 0, FALSE>> }

\* frame sizes k, slot offsets d (as the 16 bits of the i16) and saved
\* registers rS of the prologue / epilogue functions
FrameSizes == { 0, 8, 16, W15, W16 - 8 }
FrameOffsets == { 0, 12, W16 - 4 }
SavedGprs == { 0, 3, 31 }

\* stwu r1,-k(r1); stw rS,d(r1); lwz rS,d(r1); addi r1,r1,k; blr
FrameFunction(k, d, rS) ==
    << <<"Stwu", 1, 1, (W16 - k) % W16>>,
       <<"Stw", rS, 1, d>>,
       <<"Lwz", rS, 1, d>>,
       <<"Addi", 1, 1, k>>,
       <<"Bclr", "BranchAlways", 0, FALSE>> >>

FrameFunctions ==
    { FrameFunction(k, d, rS) : k \in FrameSizes, d \in FrameOffsets, rS \in SavedGprs }

\* disasm_c on a decoded function: one run, then the replay
InitSignature ==
    /\ insts \in SeqsUpTo(SignaturePool, MaxSigInsts) \cup FrameFunctions
    /\ queue = <<>> /\ entry_states = <<>>
    /\ state = DefaultState /\ cursor = 0 /\ pc = "start" /\ panic = ""
    /\ run_no = 0 /\ first_result = NoOutcome
    /\ parameter_gprs = <<>> /\ final_state = DefaultState /\ has_return = FALSE

(***************************************************************************)
(* Specifications                                                          *)
(***************************************************************************)
\* dataflow::run, twice, over every instruction list of the pool
Init ==
    /\ InitEngine /\ fn_address \in FnAddressPool
    /\ IdleValue /\ IdleDecoder /\ IdleTransfer
Next == Start \/ ProcessNext \/ ApplyItem \/ BlockEnd \/ Finish \/ RunAgain
Spec == Init /\ [][Next]_vars
\* the loop of run always takes its next step
FairSpec == Spec /\ WF_vars(Next)

\* disasm_c: dataflow::run and the signature reconstruction
InitS ==
    /\ InitSignature /\ fn_address \in FnAddressPool
    /\ IdleValue /\ IdleDecoder /\ IdleTransfer
NextSignature == Start \/ ProcessNext \/ ApplyItem \/ BlockEnd \/ Finish \/ Replay
SpecSignature == InitS /\ [][NextSignature]_vars

\* the operations of Value on operands of the pool
InitV ==
    /\ InitValue /\ fn_address = 0
    /\ IdleDecoder /\ IdleTransfer /\ IdleEngine
SpecValue == InitV /\ [][NextValue]_vars

\* the Int constructors, VInt::add and the folds of add and bit_or on Ints
InitI ==
    /\ InitInt /\ fn_address = 0
    /\ IdleDecoder /\ IdleTransfer /\ IdleEngine
SpecInt == InitI /\ [][NextInt]_vars

\* the raw decoder called repeatedly on every buffer of the pool
InitR ==
    /\ InitRaw /\ fn_address = 0
    /\ IdleValue /\ IdleTransfer /\ IdleEngine
SpecRaw == InitR /\ [][DecodeInstruction]_vars

\* the windowed decoder called repeatedly on every window of the pool
InitD ==
    /\ InitDecoder /\ fn_address = 0
    /\ IdleValue /\ IdleTransfer /\ IdleEngine
SpecDecoder == InitD /\ [][NextInstruction]_vars

\* apply_effect along every instruction sequence of the pool
InitT ==
    /\ InitTransfer /\ fn_address \in FnAddressPool
    /\ IdleValue /\ IdleDecoder /\ IdleEngine
SpecTransfer == InitT /\ [][NextTransfer]_vars

(***************************************************************************)
(* Properties of the worklist engine                                       *)
(***************************************************************************)
\* the analysis errors that abort a function's analysis by design
AnalysisErrors ==
    { "add", "spr: not yet implemented", "set_spr: not yet implemented",
      "memory read from uninitialized address", "apply_effect: not yet implemented",
      "join: both diverging" }

\* C1: for every instruction list, dataflow::run terminates with the worklist
\* drained (pc = "done"), unless the function's analysis is aborted by one of
\* the analysis errors.
C1_RunTerminates ==
    <>(pc = "done" \/ (pc = "panic" /\ panic \in AnalysisErrors))

IntervalsBefore(k) ==
    { <<yielded[j][1],
        compute_branch_target(yielded[j][1], yielded[j][2][5], yielded[j][2][4])>> :
      j \in { i \in 1..(k - 1) : /\ yielded[i][2][1] = "Bc"
                                 /\ ~yielded[i][2][6]
                                 /\ yielded[i][2][2] # "BranchAlways" } }

\* the k-th yielded instruction is an unconditional return or unlinked branch
\* at an address outside every interval recorded before it
EndsWindow(k) ==
    LET a == yielded[k][1]
        i == yielded[k][2]
    IN  /\ \/ i[1] = "Bclr" /\ i[2] = "BranchAlways" /\ ~i[4]
           \/ i[1] = "Branch" /\ ~i[4]
        /\ \A iv \in IntervalsBefore(k) : ~(iv[1] <= a /\ a < iv[2])

C3_ReachedEndExactly ==
    range.end = Unbounded =>
        /\ reached_end => yielded # <<>>
        /\ \A k \in 1..Len(yielded) : EndsWindow(k) <=> (reached_end /\ k = Len(yielded))

C3_NoMoreAfterEnd ==
    (range.end = Unbounded /\ reached_end) =>
        /\ last_ret' = NoMore
        /\ UNCHANGED <<input, offset, yielded>>

C3_Scenario ==
    (range.end = Unbounded /\ buffer = <<AddiWord, StwWord, BlrWord, GarbageWord>>) =>
        /\ offset <= 12
        /\ last_ret[1] \notin {"Err", "Panic"}
        /\ last_ret = NoMore =>
              yielded = << <<range.start, <<"Addi", 3, 0, 1>>>>,
                           <<range.start + 4, <<"Stw", 3, 1, 0>>>>,
                           <<range.start + 8, <<"Bclr", "BranchAlways", 0, FALSE>>>> >>

\* C3: with an Unbounded range, reached_end is set exactly when the yielded
\* instruction is Bclr{BranchAlways, link=false} or Branch{link=false} at an
\* address outside every interval recorded from a conditional Bc; that
\* instruction is yielded and every later call returns "no more"; an
\* unconditional return inside a recorded interval does not end the window;
\* the window [addi; stw; blr; garbage] yields exactly the three instructions
\* and never reads the garbage word.
C3_UnboundedWindowEnd ==
    /\ [](C3_ReachedEndExactly /\ C3_Scenario)
    /\ [][C3_NoMoreAfterEnd]_vars

\* C3 witness: bne +8; blr inside its interval; blr outside it ends the window
C3_Witness ==
    /\ range.end = Unbounded /\ reached_end /\ last_ret = NoMore
    /\ Len(yielded) = 3
    /\ yielded[1][2][1] = "Bc" /\ yielded[2][2][1] = "Bclr" /\ yielded[3][2][1] = "Bclr"

C4_BelowEnd ==
    range.end[1] = "Bounded" =>
        /\ ~reached_end
        /\ \A k \in 1..Len(yielded) : yielded[k][1] < range.end[2]

C4_Call ==
    range.end[1] = "Bounded" =>
        /\ range.start + offset >= range.end[2] =>
              last_ret' = NoMore /\ UNCHANGED <<input, offset, yielded>>
        /\ yielded' # yielded =>
              /\ yielded' = Append(yielded, <<range.start + offset, last_ret'[3]>>)
              /\ offset' = offset + 4
        /\ (range.start + offset < range.end[2] /\ input # <<>> /\ vars' # vars) =>
              offset' = offset + 4 /\ input' = Tail(input)

\* C4: with range.end = Bounded(e), every yielded instruction has the address
\* range.start + offset_before_read and that address is below e; a call made
\* with instr_addr >= e returns "no more" without reading a word; reached_end
\* is never set, so a call made below e reads the next word even after a blr
\* or an unlinked Branch.
C4_BoundedWindow ==
    /\ []C4_BelowEnd
    /\ [][C4_Call]_vars

\* C4 witness: a blr below e was yielded, decoding went on to e and stopped
\* there with words left unread
C4_Witness ==
    /\ range.end[1] = "Bounded" /\ last_ret = NoMore
    /\ Len(yielded) = 2 /\ yielded[1][2][1] = "Bclr"
    /\ range.start + offset = range.end[2] /\ input # <<>>

\* C26: once next_instruction_with_offset has returned "no more", every
\* later call returns "no more" too, reads no word and leaves the decoder
\* offset, reached_end and conditional_ranges as they were.
C26_EndIsSticky ==
    [][ last_ret = NoMore =>
            /\ last_ret' = NoMore
            /\ UNCHANGED <<input, offset, reached_end, conditional_ranges, yielded>>
      ]_vars

\* "no more" was returned behind an unlinked b that ended the window, with
\* words left unread
C26_Witness ==
    /\ last_ret = NoMore /\ reached_end
    /\ yielded # <<>> /\ yielded[Len(yielded)][2][1] = "Branch"
    /\ input # <<>>

(***************************************************************************)
(* Properties of the value lattice                                         *)
(***************************************************************************)
\* C5: join(v, v) = v; join(v, Uninitialized) = Uninitialized =
\* join(Uninitialized, v); join is commutative; the join of two different
\* values neither of which is Uninitialized is Any.
C5_JoinLaws ==
    /\ Join(va, va) = va
    /\ Join(va, UNINIT) = UNINIT /\ Join(UNINIT, va) = UNINIT
    /\ Join(va, vb) = Join(vb, va)
    /\ (va # vb /\ va # UNINIT /\ vb # UNINIT) => Join(va, vb) = ANY
    /\ vres[1] = "join" =>
          vres[2] = (IF va = vb THEN va ELSE IF UNINIT \in {va, vb} THEN UNINIT ELSE ANY)

\* C5 witness: an Add tree returned by add was joined with a different value
C5_Witness ==
    /\ vres = <<"join", ANY>>
    /\ IsAdd(va) /\ vb # va /\ vb # UNINIT

\* C6: add(a, b) is structurally equal to add(b, a).
C6_AddCommutative == Add(va, vb) = Add(vb, va)

\* C7: add(a, add(b, c)) is structurally equal to add(add(a, b), c).
C7_AddAssociative == Add(va, Add(vb, vc)) = Add(Add(va, vb), vc)

\* C8: bit_or(a, b) = bit_or(b, a); two Ints of equal type fold to
\* Int(a.val | b.val); every other pair, two Ints of different types
\* included, yields a BitOr node.
C8_BitOr ==
    /\ bit_or(va, vb) = bit_or(vb, va)
    /\ IF IsInt(va) /\ IsInt(vb) /\ va[3] = vb[3]
       THEN bit_or(va, vb) = IntV(OrU32(va[2], vb[2]), va[3])
       ELSE bit_or(va, vb)[1] = "BitOr"

U32One == IntV(<<0, 1>>, "U32")
U32Zero == IntV(<<0, 0>>, "U32")

\* C9: on an Int of any type the three predicates fold to u32(1) or u32(0)
\* by the stored 32 bits read as i32 (zero: all bits clear; negative: bit 31
\* set; positive: neither), exactly one of them is u32(1), and on any other
\* value each returns its wrapper node.
C9_OneIfFold ==
    /\ IF IsInt(va)
       THEN /\ one_if_zero(va) = (IF va[2] = <<0, 0>> THEN U32One ELSE U32Zero)
            /\ one_if_negative(va) = (IF va[2][1] >= 2^15 THEN U32One ELSE U32Zero)
            /\ one_if_positive(va) =
                 (IF va[2] # <<0, 0>> /\ va[2][1] < 2^15 THEN U32One ELSE U32Zero)
            /\ Cardinality({ f \in {"zero", "negative", "positive"} :
                   (CASE f = "zero" -> one_if_zero(va)
                      [] f = "negative" -> one_if_negative(va)
                      [] f = "positive" -> one_if_positive(va)) = U32One }) = 1
       ELSE /\ one_if_zero(va) = <<"OneIfZero", va>>
            /\ one_if_negative(va) = <<"OneIfNegative", va>>
            /\ one_if_positive(va) = <<"OneIfPositive", va>>
    /\ one_if_zero(IntV(<<0, 0>>, "I16")) = U32One
    /\ one_if_zero(IntV(<<0, 7>>, "U8")) = U32Zero
    /\ one_if_negative(IntV(<<2^15, 0>>, "I32")) = U32One
    /\ one_if_positive(IntV(<<0, 0>>, "Ptr")) = U32Zero

\* C9 witness: one_if_negative was applied to Int i32::MIN and returned u32(1)
C9_Witness ==
    /\ va = IntV(<<2^15, 0>>, "I32")
    /\ vres = <<"one_if_negative", U32One>>

\* the leaves of an Add tree, left to right
RECURSIVE Leaves(_)
Leaves(v) == IF IsAdd(v) THEN Leaves(v[2]) \o Leaves(v[3]) ELSE <<v>>

IsNotInt(v) == ~IsInt(v)

\* the canonical shape for the non-constant terms t and the constant leaf c
\* (c = UNINIT when there is none)
ListedShape(t, c) ==
    CASE Len(t) = 1 -> IF c = UNINIT THEN t[1] ELSE <<"Add", t[1], c>>
      [] Len(t) = 2 ->
           IF c = UNINIT THEN <<"Add", t[1], t[2]>>
           ELSE <<"Add", <<"Add", t[1], t[2]>>, c>>
      [] Len(t) = 3 ->
           IF c = UNINIT THEN <<"Add", <<"Add", t[1], t[2]>>, t[3]>>
           ELSE <<"Add", <<"Add", t[1], t[2]>>, <<"Add", t[3], c>>>>
      [] Len(t) = 4 ->
           IF c = UNINIT THEN <<"Add", <<"Add", t[1], t[2]>>, <<"Add", t[3], t[4]>>>>
           ELSE <<"Add", <<"Add", t[1], t[2]>>, <<"Add", t[3], <<"Add", t[4], c>>>>>>

\* at most one Int leaf, non-zero and rightmost; a listed shape up to 4 terms
CanonicalAdd(v) ==
    LET ls == Leaves(v)
        ints == { i \in 1..Len(ls) : IsInt(ls[i]) }
        t == SelectSeq(ls, IsNotInt)
    IN  /\ Cardinality(ints) <= 1
        /\ ints # {} => (ints = {Len(ls)} /\ ls[Len(ls)][2] # <<0, 0>>)
        /\ (Cardinality(ints) <= 1 /\ Len(t) \in 1..4) =>
              v = ListedShape(t, IF ints = {} THEN UNINIT ELSE ls[Len(ls)])

\* C11: every Add tree returned by add, the operands being leaves or earlier
\* results of add, has at most one Int leaf, that leaf is non-zero and the
\* rightmost leaf, and the tree has the listed shape for its 1..4
\* non-constant terms.
C11_AddCanonical ==
    (vres[1] \in {"add", "add_left", "add_right"} /\ IsAdd(vres[2])) =>
        CanonicalAdd(vres[2])

\* C12: every BitOr node returned by bit_or has its left operand strictly
\* below its right operand in the total order on values.
C12_BitOrOrdered ==
    (vres[1] = "bit_or" /\ vres[2][1] = "BitOr") =>
        ValueCmp(vres[2][2], vres[2][3]) < 0

\* the payload val brought to the width of ty: I8 / I16 sign-extended,
\* U8 / U16 zero-extended, the 32-bit types unchanged
NormalizedPayload(val, ty) ==
    CASE ty = "I8" ->
           IF val[2] % 256 >= 128 THEN <<65535, 65280 + (val[2] % 256)>>
           ELSE <<0, val[2] % 256>>
      [] ty = "I16" -> IF val[2] >= 32768 THEN <<65535, val[2]>> ELSE <<0, val[2]>>
      [] ty = "U8" -> <<0, val[2] % 256>>
      [] ty = "U16" -> <<0, val[2]>>
      [] OTHER -> val

\* C13: every Int returned by Value::int, Value::u32, Value::i16, by the
\* fold of add and by the fold of bit_or has its payload normalized to the
\* width of its type, whatever payload was passed in.
C13_IntNormalized ==
    (vres[1] \in {"int", "u32", "i16", "add", "bit_or"} /\ IsInt(vres[2])) =>
        vres[2][2] = NormalizedPayload(vres[2][2], vres[2][3])

\* C14: VInt::add on two operands of the same integer type returns the
\* wrapping 32-bit sum normalized to that type; on a float with an integer,
\* or on two different integer types, it returns None.
C14_VIntAdd ==
    vres[1] = "vint_add" =>
        IF va[3] # "F32" /\ va[3] = vb[3]
        THEN vres[2] = [ val |-> NormalizedPayload(WrappingAdd(va[2], vb[2]), va[3]),
                         ty |-> va[3] ]
        ELSE (va[3] # vb[3]) => vres[2] = NoneV

(***************************************************************************)
(* Properties of the transfer function                                     *)
(***************************************************************************)
\* Uninitialized occurs in v as an operand of Add, BitOr or a OneIf* node
RECURSIVE HasUninitOperand(_)
HasUninitOperand(v) ==
    CASE v[1] \in {"Add", "BitOr"} ->
           \/ v[2] = UNINIT \/ v[3] = UNINIT
           \/ HasUninitOperand(v[2]) \/ HasUninitOperand(v[3])
      [] v[1] \in {"OneIfNegative", "OneIfPositive", "OneIfZero"} ->
           v[2] = UNINIT \/ HasUninitOperand(v[2])
      [] OTHER -> FALSE

\* C10: in every BlockState the transfer function reaches from the initial
\* state, no GPR, SPR or memory value, and no memory key, has Uninitialized
\* as an operand of Add, BitOr, OneIfNegative, OneIfPositive or OneIfZero.
C10_NoUninitOperand ==
    /\ \A i \in 0..(NumGprs - 1) : ~HasUninitOperand(tstate.gprs[i].value)
    /\ \A v \in { tstate.sprs.lr, tstate.sprs.ctr, tstate.sprs.msr,
                   tstate.sprs.xer.so, tstate.sprs.xer.ov, tstate.sprs.xer.ca } :
          ~HasUninitOperand(v)
    /\ \A f \in 0..(NumCrFields - 1) :
          \A v \in { tstate.sprs.cr[f].lt, tstate.sprs.cr[f].gt,
                      tstate.sprs.cr[f].eq, tstate.sprs.cr[f].so } : ~HasUninitOperand(v)
    /\ \A k \in DOMAIN tstate.memory :
          ~HasUninitOperand(k) /\ ~HasUninitOperand(tstate.memory[k])

(***************************************************************************)
(* Properties of the signature reconstruction                              *)
(***************************************************************************)
\* the state the replay holds at idx before the effect of that instruction
RECURSIVE PreState(_)
PreState(idx) ==
    IF HasEntry(entry_states, idx) THEN entry_states[idx]
    ELSE IF idx = 0 THEN DefaultState
    ELSE apply_effect(PreState(idx - 1), idx - 1, insts[idx]).st

\* the instruction at idx reads a GPR in 3..=10 that holds Param(n) then
ReadsParamAt(idx, n) ==
    \E g \in ReadGprs(insts[idx + 1]) \cap (3..10) :
        PreState(idx).gprs[g].value = Param(n)

ReadWhileParam ==
    { n \in 0..7 : \E idx \in 0..(Len(insts) - 1) : ReadsParamAt(idx, n) }

FirstRead(n) ==
    CHOOSE idx \in 0..(Len(insts) - 1) :
        ReadsParamAt(idx, n) /\ \A j \in 0..(idx - 1) : ~ReadsParamAt(j, n)

\* C15: the reported parameter list holds Param(n) exactly when some
\* instruction of the replay reads a GPR in 3..=10 that is still Param(n)
\* at the read (an instruction that reads and overwrites the register
\* included), each parameter once, in the order of first observation; for
\* [mr r4,r3; blr] it is exactly [Param(0)].
C15_ParameterInference ==
    pc = "reconstructed" =>
        /\ { parameter_gprs[k] : k \in 1..Len(parameter_gprs) } = ReadWhileParam
        /\ \A j, k \in 1..Len(parameter_gprs) :
              j < k => /\ parameter_gprs[j] # parameter_gprs[k]
                       /\ FirstRead(parameter_gprs[j]) <= FirstRead(parameter_gprs[k])
        /\ insts = << <<"Or", 3, 4, 3, FALSE>>, <<"Bclr", "BranchAlways", 0, FALSE>> >>
              => parameter_gprs = <<0>>

\* the function has no conditional branch: the replay is one pass from the
\* default state
StraightLine == \A i \in 1..Len(insts) : insts[i][1] # "Bc"
ReadsReturnGpr(inst) == GprReturn \in ReadGprs(inst)
WritesReturnGpr(inst) ==
    \/ inst[1] = "Addi" /\ inst[2] = GprReturn
    \/ inst[1] = "Or" /\ inst[3] = GprReturn
    \/ inst[1] = "Branch" /\ inst[4]
ReadsNeverWrites ==
    /\ \E i \in 1..Len(insts) : ReadsReturnGpr(insts[i])
    /\ \A i \in 1..Len(insts) : ~WritesReturnGpr(insts[i])
WriteNotReadAfterwards ==
    \E i \in 1..Len(insts) :
        /\ WritesReturnGpr(insts[i])
        /\ \A j \in (i + 1)..Len(insts) : ~ReadsReturnGpr(insts[j])

\* C16: the function is reported as returning a value iff GPR3 of the state
\* the replay returns is initialized and its value_read flag is false; a
\* function that reads r3 and never writes it is void, and a write to r3
\* that is not read afterwards yields a return value.
C16_ReturnInference ==
    pc = "reconstructed" =>
        /\ has_return = (is_initialized(final_state.gprs[GprReturn].value)
                          /\ ~final_state.gprs[GprReturn].value_read)
        /\ (StraightLine /\ ReadsNeverWrites) => ~has_return
        /\ (StraightLine /\ WriteNotReadAfterwards) => has_return

\* CallerStack + c for the 16 bits c of an i16 constant, in canonical form
StackSlot(c) ==
    IF c = 0 THEN <<"CallerStack">>
    ELSE <<"Add", <<"CallerStack">>,
           <<"Int", (IF c >= 32768 THEN <<65535, c>> ELSE <<0, c>>), "I16">> >>

\* the run is inside the block, about to apply the instruction at idx
RunAt(idx) == pc = "block" /\ cursor = idx

NoTableEntry(w) ==
    \A i \in 1..Len(OpcodeTable) :
        ~(OpcodeTable[i][2] = opcode(w) /\ OpcodeTable[i][3] \in {-1, xform_opcode(w)})

\* C18: decode_instruction returns UnexpectedEof{offset} exactly when fewer
\* than 4 bytes remain, and then leaves the offset and the input as they
\* were; otherwise it consumes 4 bytes, and when no table entry fits the
\* word it returns UnhandledOpcode with the word and the offset the word
\* starts at.
C18_DecodeContract ==
    [][ IF input = <<>> \/ Len(Head(input)) = 1
        THEN /\ last_ret' = <<"Err", "UnexpectedEof", offset>>
             /\ offset' = offset /\ input' = input
        ELSE /\ offset' = offset + 4 /\ input' = Tail(input)
             /\ last_ret'[1] = "Err" =>
                    /\ last_ret'[2] = "UnhandledOpcode"
                    /\ last_ret'[3] = Head(input) /\ last_ret'[4] = offset
             /\ NoTableEntry(Head(input)) <=> last_ret'[1] = "Err"
      ]_vars

\* the second word has primary opcode 31 and an unknown extended opcode:
\* the error names the offset 4 it starts at, and three bytes are left
C18_Witness ==
    /\ buffer = <<AddiWord, UnknownExtendedWord, <<3>> >>
    /\ last_ret = <<"Err", "UnhandledOpcode", UnknownExtendedWord, 4>>
    /\ input = << <<3>> >> /\ offset = 8

\* the option each of the 32 BO values stands for
OptionOfBO(bo) ==
    CASE bo \in 0..3 -> "DecCTRBranchIfFalse"
      [] bo \in 4..7 -> "BranchIfFalse"
      [] bo \in 8..11 -> "DecCTRBranchIfTrue"
      [] bo \in 12..15 -> "BranchIfTrue"
      [] bo \in {16, 17, 24, 25} -> "DecCTRBranchIfNotZero"
      [] bo \in {18, 19, 26, 27} -> "DecCTRBranchIfZero"
      [] bo \in (20..23) \cup (28..31) -> "BranchAlways"

\* the word the last call consumed, and its BO field (bits 6..10)
LastWord == buffer[offset \div 4]
LastBO == (LastWord[1] \div 32) % 32

\* C19: BranchOptions::from_word is total over the 32 values of BO: it
\* returns the option of the first of its seven rules that fits, the
\* assertion of the last rule holds for every value the first six leave,
\* and decoding a Bc or Bclr never fails on its BO field.
C19_BranchOptionsTotal ==
    /\ \A bo \in 0..31 : BranchOptionsOf(bo) = OptionOfBO(bo)
    /\ last_ret[1] # "Panic"
    /\ last_ret[1] \in {"Bc", "Bclr"} => last_ret[2] = OptionOfBO(LastBO)

\* bclr with all five bits of BO set has been decoded as BranchAlways
C19_Witness ==
    /\ buffer = <<BclrWord(31)>>
    /\ last_ret = <<"Bclr", "BranchAlways", 0, FALSE>>

(***************************************************************************)
(* Properties of the propagation step of the engine                        *)
(***************************************************************************)
\* the rule for one successor: qe is the queue and the entry states so far,
\* cur the current state
SuccessorRule(qe, succ, cur) ==
    IF succ[1] # "Id" THEN qe
    ELSE IF succ[2] \notin DOMAIN qe.es
    THEN [ q |-> qe.q \o <<succ[2]>>,
           es |-> [k \in (DOMAIN qe.es) \cup {succ[2]} |->
                     IF k = succ[2] THEN cur ELSE qe.es[k]] ]
    ELSE IF join_states(cur, qe.es[succ[2]]).st # qe.es[succ[2]]
    THEN [ q |-> qe.q \o <<succ[2]>>,
           es |-> [k \in DOMAIN qe.es |->
                     IF k = succ[2] THEN join_states(cur, qe.es[succ[2]]).st
                     ELSE qe.es[k]] ]
    ELSE qe

\* the rule over a successor list of one or two entries
RuleOver(succs, qe, cur) ==
    IF Len(succs) = 1 THEN SuccessorRule(qe, succs[1], cur)
    ELSE SuccessorRule(SuccessorRule(qe, succs[1], cur), succs[2], cur)

\* the block is at an index that has a successor list
AtSuccessorList ==
    pc = "block" /\ cursor < Len(insts) /\ SuccsOf(insts, cursor) # <<>>

MemoryJoin(a, b) ==
    [k \in (DOMAIN a) \cup (DOMAIN b) |->
        Join(IF k \in DOMAIN a THEN a[k] ELSE UNINIT,
             IF k \in DOMAIN b THEN b[k] ELSE UNINIT)]

\* the field-by-field join of two states that do not diverge
FieldwiseJoin(a, b) ==
    [ gprs |-> [i \in 0..(NumGprs - 1) |->
                 [ value_read |-> a.gprs[i].value_read \/ b.gprs[i].value_read,
                   value |-> Join(a.gprs[i].value, b.gprs[i].value) ]],
      sprs |-> [ lr |-> Join(a.sprs.lr, b.sprs.lr),
                 ctr |-> Join(a.sprs.ctr, b.sprs.ctr),
                 msr |-> Join(a.sprs.msr, b.sprs.msr),
                 xer |-> [ so |-> Join(a.sprs.xer.so, b.sprs.xer.so),
                           ov |-> Join(a.sprs.xer.ov, b.sprs.xer.ov),
                           ca |-> Join(a.sprs.xer.ca, b.sprs.xer.ca) ],
                 cr |-> [f \in 0..(NumCrFields - 1) |->
                           [ eq |-> Join(a.sprs.cr[f].eq, b.sprs.cr[f].eq),
                             gt |-> Join(a.sprs.cr[f].gt, b.sprs.cr[f].gt),
                             lt |-> Join(a.sprs.cr[f].lt, b.sprs.cr[f].lt),
                             so |-> Join(a.sprs.cr[f].so, b.sprs.cr[f].so) ]] ],
      memory |-> MemoryJoin(a.memory, b.memory),
      diverging |-> FALSE ]

JoinAsClaimed(a, b) ==
    IF a.diverging /\ ~b.diverging THEN join_states(a, b) = Ok(b)
    ELSE IF b.diverging /\ ~a.diverging THEN join_states(a, b) = Ok(a)
    ELSE (~a.diverging /\ ~b.diverging) => join_states(a, b) = Ok(FieldwiseJoin(a, b))

\* C21: the join of the running state with every recorded entry state is the
\* other operand when exactly one of the two diverges, and when neither
\* diverges it is the non-diverging state whose GPRs, SPR / XER / CR fields
\* and memory are joined field by field; it is never a failure.
C21_BlockStateJoin ==
    pc \in {"block", "loop"} =>
        \A s \in DOMAIN entry_states :
            /\ JoinAsClaimed(state, entry_states[s])
            /\ JoinAsClaimed(entry_states[s], state)

\* C22: in every run of the engine join_states is never called with two
\* diverging states: only a Bclr makes the running state diverging, the
\* block ends there with Return as the only successor, and no entry state
\* is ever diverging.
C22_NoDivergingJoin ==
    /\ panic # "join: both diverging"
    /\ \A s \in DOMAIN entry_states : ~entry_states[s].diverging
    /\ state.diverging =>
          /\ pc \in {"loop", "done"}
          /\ cursor < Len(insts)
          /\ insts[cursor + 1][1] = "Bclr"

\* a blr has been applied in a block that was entered from an entry state
C22_Witness ==
    /\ state.diverging
    /\ pc = "loop"
    /\ cursor \in DOMAIN entry_states
    /\ queue # <<>>

(***************************************************************************)
(* Properties of the branch and load arms of the transfer function         *)
(***************************************************************************)
\* the branches of the pool: <<link, mode, target>> of each
BranchLike == { inst \in TransferPool : inst[1] \in {"Branch", "Bc"} }
LinkOf(inst) == IF inst[1] = "Branch" THEN inst[4] ELSE inst[6]
ModeOf(inst) == IF inst[1] = "Branch" THEN inst[3] ELSE inst[5]
TargetOf(inst) == IF inst[1] = "Branch" THEN inst[2] ELSE inst[4]

\* r is what the transfer function made of st on the branch inst at idx
ClobberedAsClaimed(st, r, inst, idx) ==
    /\ r.ok
    /\ \A i \in {0} \cup (2..12) :
          /\ ~r.st.gprs[i].value_read
          /\ r.st.gprs[i].value =
                IF i = 3 /\ LinkOf(inst)
                THEN <<"CallResult",
                       IF ModeOf(inst) = "Absolute" THEN TargetOf(inst)
                       ELSE fn_address + 4 * idx + TargetOf(inst)>>
                ELSE <<"Uninitialized">>
    /\ \A i \in {1} \cup (13..31) : r.st.gprs[i] = st.gprs[i]
    /\ \A v \in { r.st.sprs.lr, r.st.sprs.ctr, r.st.sprs.msr,
                    r.st.sprs.xer.so, r.st.sprs.xer.ov, r.st.sprs.xer.ca } :
          v = <<"Uninitialized">>
    /\ \A f \in 0..7 :
          \A v \in { r.st.sprs.cr[f].lt, r.st.sprs.cr[f].gt,
                      r.st.sprs.cr[f].eq, r.st.sprs.cr[f].so } : v = <<"Uninitialized">>
    /\ r.st.memory = st.memory
    /\ r.st.diverging = st.diverging

\* C23: the transfer function on a Branch or Bc, linked or not, resets GPR0
\* and GPR2..=12 (value Uninitialized, value_read false) and LR, CTR, MSR,
\* XER and the 8 CR fields, leaves GPR1, GPR13..=31, memory and diverging
\* as they were, and with link set leaves CallResult(target) in GPR3.
C23_ClobberFrame ==
    tstatus = "ok" =>
        \A inst \in BranchLike :
            ClobberedAsClaimed(tstate, apply_effect(tstate, tsteps, inst), inst, tsteps)

\* a linked branch at index 2, behind a stwu and an mtlr: the frame and the
\* stored word are kept, LR is reset, r3 holds the call result
C23_Witness ==
    /\ tsteps = 3 /\ tstatus = "ok"
    /\ fn_address = 256
    /\ tstate.gprs[3].value = <<"CallResult", 272>>
    /\ tstate.gprs[0] = [value_read |-> FALSE, value |-> UNINIT]
    /\ tstate.sprs.lr = UNINIT
    /\ tstate.gprs[1].value # CALLER_STACK
    /\ tstate.memory # <<>>

\* the loads and the stores of the pool
Loads == { inst \in TransferPool : inst[1] = "Lwz" }
Stores == { inst \in TransferPool : inst[1] \in {"Stw", "Stwu"} }

\* the address a load inst computes in st
LoadAddress(st, inst) ==
    IF inst[3] = 0
    THEN <<"Int", (IF inst[4] >= 32768 THEN <<65535, inst[4]>> ELSE <<0, inst[4]>>), "I16">>
    ELSE Add(st.gprs[inst[3]].value, ValueI16(inst[4]))

\* r is what the transfer function made of st on the load inst
LoadedAsClaimed(st, r, inst) ==
    LET ea == LoadAddress(st, inst) IN
    IF ea \in DOMAIN st.memory
    THEN /\ r.ok
         /\ r.st.gprs[inst[2]].value = st.memory[ea]
         /\ r.st.memory = st.memory
         /\ \A i \in (0..31) \ {inst[2]} : r.st.gprs[i].value = st.gprs[i].value
    ELSE ~r.ok /\ r.why \in {"memory read from uninitialized address", "add"}

\* the load that reads back what the store inst wrote
LoadBack(inst) ==
    IF inst[1] = "Stw" THEN <<"Lwz", 30, inst[3], inst[4]>> ELSE <<"Lwz", 30, inst[3], 0>>

\* a store at idx followed by the load of the same address yields the value
\* the stored register held before the store
StoredIsLoaded(st, idx, inst) ==
    LET a == apply_effect(st, idx, inst) IN
    a.ok => LET b == apply_effect(a.st, idx + 1, LoadBack(inst)) IN
            b.ok /\ b.st.gprs[30].value = st.gprs[inst[2]].value

\* C25: Lwz computes i16(imm) for the base GPR0 and r[src] + i16(imm)
\* otherwise; when that address is a key of the memory map the destination
\* gets the value last stored there by Stw / Stwu, and when it is not the
\* analysis aborts and no value is produced.
C25_LwzContract ==
    tstatus = "ok" =>
        /\ \A inst \in Loads :
              LoadedAsClaimed(tstate, apply_effect(tstate, tsteps, inst), inst)
        /\ \A inst \in Stores : StoredIsLoaded(tstate, tsteps, inst)

\* li r4,8; stw r3,0(r4); lwz r5,8(r0): r5 holds what r3 held
C25_Witness ==
    /\ tsteps = 3 /\ tstatus = "ok"
    /\ tstate.gprs[5].value = Param(0)
    /\ DOMAIN tstate.memory = { ValueI16(8) }
    /\ tstate.memory[ValueI16(8)] = Param(0)

(***************************************************************************)
(* Properties of the control-flow builder and of the worklist              *)
(***************************************************************************)
\* the successor list the instruction at idx is to get, <<>> for none
SuccessorsAsClaimed(idx) ==
    LET inst == insts[idx + 1]
        target_addr == IF inst[5] = "Absolute" THEN inst[4]
                       ELSE fn_address + 4 * idx + inst[4]
    IN  IF inst[1] = "Bc" /\ ~inst[6]
        THEN IF target_addr < fn_address THEN << <<"Id", idx + 1>> >>
             ELSE << <<"Id", (target_addr - fn_address) \div 4>>, <<"Id", idx + 1>> >>
        ELSE IF inst[1] = "Bclr" THEN << <<"Return">> >>
        ELSE <<>>

\* C24: the control-flow builder gives Bc{link=false} the taken target (when
\* it does not lie before fn_address) followed by the fall-through, gives
\* every Bclr exactly [Return], gives no other instruction a successor
\* list, and block processing runs straight through an instruction without
\* one.
C24_ControlFlow ==
    [][ /\ pc = "start" =>
             /\ pc' # "panic"
             /\ \A idx \in 0..(Len(insts) - 1) :
                   SuccsOf(insts, idx) = SuccessorsAsClaimed(idx)
        /\ (pc = "block" /\ cursor < Len(insts) /\ pc' # "panic"
                /\ SuccessorsAsClaimed(cursor) = <<>>) =>
             pc' = "block" /\ cursor' = cursor + 1
      ]_vars

\* the state behind the instruction at idx in the replay
OutState(idx) == apply_effect(PreState(idx), idx, insts[idx + 1])

\* control reaches s from p: p is a Bc that targets s, or p = s - 1 and the
\* instruction at p is not a return
IsPredecessor(p, s) ==
    \/ <<"Id", s>> \in { SuccessorsAsClaimed(p)[k] : k \in 1..Len(SuccessorsAsClaimed(p)) }
    \/ p = s - 1 /\ insts[p + 1][1] # "Bclr"

\* joining the out-state o into the entry state e leaves e as it is
StableUnder(e, o) == o.diverging \/ FieldwiseJoin(o, e) = e

\* C27: when run returns, every entry state is stable under the join with
\* the out-state of each control-flow predecessor of its index (each Bc that
\* targets it, the instruction before it when that falls through) and, at
\* initial_idx, with the function-entry Default state.
C27_FixedPointSound ==
    pc = "done" =>
        \A s \in DOMAIN entry_states :
            /\ s = initial_idx => StableUnder(entry_states[s], DefaultState)
            /\ \A p \in 0..(Len(insts) - 1) :
                  (IsPredecessor(p, s) /\ OutState(p).ok) =>
                      StableUnder(entry_states[s], OutState(p).st)

\* the displacement field of a Branch word (bits 6..29) and of a Bc word
\* (bits 16..29) as an unsigned number, times four
BranchDisplacement(w) == (w[1] % 1024) * 65536 + (w[2] - (w[2] % 4))
BcDisplacement(w) == w[2] - (w[2] % 4)

\* the target t decoded at address base does not point backwards
PointsForward(base, mode, t) ==
    mode = "Relative" => compute_branch_target(base, mode, t) >= base

\* C28: the target field of every word decoded as Branch or Bc is the
\* zero-extended displacement times four: a non-negative multiple of 4 below
\* 2^26 (Branch) or 2^16 (Bc), never a negative number; so in Relative mode
\* compute_branch_target is never below the address of the instruction, and
\* the conditional interval and the taken successor index of a Bc point
\* forward.
C28_TargetsForward ==
    /\ last_ret[1] = "Branch" =>
          /\ last_ret[2] = BranchDisplacement(LastWord)
          /\ last_ret[2] \in 0..(2^26 - 1) /\ last_ret[2] % 4 = 0
          /\ PointsForward(offset - 4, last_ret[3], last_ret[2])
    /\ last_ret[1] = "Bc" =>
          /\ last_ret[4] = BcDisplacement(LastWord)
          /\ last_ret[4] \in 0..(2^16 - 1) /\ last_ret[4] % 4 = 0
          /\ PointsForward(offset - 4, last_ret[5], last_ret[4])
          /\ (last_ret[5] = "Relative" /\ ~last_ret[6]) =>
                SuccsOf(<<last_ret>>, 0) = << <<"Id", last_ret[4] \div 4>>, <<"Id", 1>> >>

\* the word 0x4082fff8, the encoding of bne -8, has been decoded as a
\* relative Bc with the target 65528
C28_Witness ==
    /\ last_ret = <<"Bc", "BranchIfFalse", 2, 65528, "Relative", FALSE>>
    /\ LastWord = <<16514, 65528>>

\* the loop of add over the operands x and y: the term buffer and the sum
FoldOf(x, y) == AddFold(Flatten(x) \o Flatten(y), 1, NoneV, <<>>)

\* add(x, y) returns: the buffer of 4 slots is not exceeded, the sum is
\* present where it is unwrapped, and a value comes back
TotalFold(f) ==
    /\ Len(f.terms) <= 4
    /\ Len(f.terms) <= 1 => f.sum # NoneV
    /\ AddOfFold(f) # <<"Panic">>

AddIsTotalOn(x, y) == TotalFold(FoldOf(x, y))

\* C29: Value::add returns a value for every pair of operands (leaves, Ints
\* of every type, int with float, Add trees built by earlier adds): the
\* one-level flattening leaves at most 4 terms, so the term buffer never
\* overflows and the unreachable arm is not taken, and the sum is present
\* whenever the 0-term and 1-term arms unwrap it.
C29_AddTotal ==
    /\ AddIsTotalOn(va, vb)
    /\ AddIsTotalOn(Add(va, vb), vc)
    /\ AddIsTotalOn(va, Add(vb, vc))
    /\ vres[1] \in {"add", "add_left", "add_right"} => vres[2] # <<"Panic">>

\* an Add tree met an Add of two further terms: the buffer holds 4 terms
\* and add returned a tree
C29_Witness ==
    /\ vres[1] = "add_right"
    /\ IsAdd(va) /\ IsAdd(vres[2])
    /\ Len(FoldOf(va, Add(vb, vc)).terms) = 4

\* every index waiting in the worklist is initial_idx or has an entry state
QueueHasEntries ==
    \A k \in 1..Len(queue) : queue[k] = 0 \/ queue[k] \in DOMAIN entry_states

\* the state a block starts from when an index is popped: its entry state,
\* and the Default state only at initial_idx without an entry state
InputRule ==
    (pc = "loop" /\ pc' = "block") =>
        \/ cursor' \in DOMAIN entry_states /\ state' = entry_states[cursor']
        \/ cursor' \notin DOMAIN entry_states /\ cursor' = 0 /\ state' = DefaultState

\* C30: in dataflow::run every index in the worklist other than initial_idx
\* has an entry state, so the assert_eq!(idx, initial_idx) of the Default
\* fallback never fails; the Default state is a block's input only for
\* initial_idx and only while initial_idx has no entry state.
C30_WorklistInvariant ==
    /\ [](pc \in {"loop", "block", "done"} => QueueHasEntries)
    /\ [](panic # "assert_eq idx initial_idx")
    /\ [][InputRule]_vars

\* index 1 has been popped and starts from its entry state while index 2
\* waits in the worklist with an entry state of its own
C30_Witness ==
    /\ pc = "block" /\ cursor = 1 /\ queue = <<2>>
    /\ 1 \in DOMAIN entry_states /\ 2 \in DOMAIN entry_states
    /\ state = entry_states[1]

====
